---- MODULE Spec2Model ----
(***************************************************************************)
(* A model of surreal-simple-querybuilder's QueryBuilder                   *)
(* (src/src/querybuilder.rs).                                              *)
(*                                                                         *)
(* Text is a sequence of one-character strings, so that find and           *)
(* replace_range work on positions as they do on a Rust String.  A segment *)
(* is the enum QueryBuilderSegment: Str(text) or Ref(index into storage),  *)
(* indices counted from 0 as in the source.  The parameters HashMap is a   *)
(* set of <<key, value>> pairs with unique keys; its iteration order is    *)
(* chosen nondeterministically when build starts.                          *)
(***************************************************************************)
EXTENDS Integers, Sequences, FiniteSets, TLC

VARIABLES
  segments,    \* QueryBuilder.segments
  parameters,  \* QueryBuilder.parameters
  storage,     \* QueryBuilder.storage
  calls,       \* history: the operations chained on the builder so far
  pc,          \* "chain" | "find" | "replace" | "done" | "panic" | "overflow"
  output,      \* build's local `output`
  pending,     \* build's iterator over self.parameters: the pairs still to process
  idx          \* result of output.find(key): an index, or -1 for None

vars == <<segments, parameters, storage, calls, pc, output, pending, idx>>

----------------------------------------------------------------------------
(* Bounds *)

MaxOps == 2      \* operations chained before build (chained-call runs)
MaxOut == 6      \* length up to which a loop that never ends is followed
MaxText == 3     \* longest text drawn for the substitution specifications
MaxKey == 2      \* longest parameter key drawn (single-parameter runs)
MaxVal == 2      \* longest parameter value drawn (single-parameter runs)
MaxPair == 1     \* longest key and value drawn (two-parameter runs)

----------------------------------------------------------------------------
(* Text *)

Alphabet == {"a", "b"}

RECURSIVE Texts(_)
Texts(n) ==
  IF n = 0 THEN {<< >>}
  ELSE LET shorter == Texts(n - 1)
       IN shorter \cup {Append(t, c) : t \in shorter, c \in Alphabet}

SPACE == <<" ">>
COMMA == <<",">>
EMPTY == << >>

KW_CREATE == <<"C", "R", "E", "A", "T", "E">>
KW_UPDATE == <<"U", "P", "D", "A", "T", "E">>
KW_SELECT == <<"S", "E", "L", "E", "C", "T">>
KW_FROM == <<"F", "R", "O", "M">>
KW_WHERE == <<"W", "H", "E", "R", "E">>
KW_AND == <<"A", "N", "D">>
KW_SET == <<"S", "E", "T">>
KW_FETCH == <<"F", "E", "T", "C", "H">>
KW_LIMIT == <<"L", "I", "M", "I", "T">>
KW_START_AT == <<"S", "T", "A", "R", "T", " ", "A", "T">>

\* [&str]::join(sep)
RECURSIVE Join(_, _)
Join(strs, sep) ==
  IF strs = << >> THEN << >>
  ELSE IF Len(strs) = 1 THEN strs[1]
  ELSE strs[1] \o sep \o Join(Tail(strs), sep)

\* whether `key` stands in `text` at 0-based byte position i
MatchAt(text, key, i) ==
  /\ i + Len(key) <= Len(text)
  /\ \A j \in 1..Len(key) : text[i + j] = key[j]

\* str::find: the 0-based position of the first occurrence, -1 for None
Find(text, key) ==
  LET hits == {i \in 0..Len(text) : MatchAt(text, key, i)}
  IN IF hits = {} THEN -1 ELSE CHOOSE i \in hits : \A j \in hits : i <= j

\* String::replace_range(from..to, with), 0-based, `to` exclusive
ReplaceRange(text, from, to, with) ==
  SubSeq(text, 1, from) \o with \o SubSeq(text, to + 1, Len(text))

----------------------------------------------------------------------------
(* Segments and builders.  Record fields are written in the order TLC     *)
(* keeps them in, so that a record is in normal form as soon as it is     *)
(* built.                                                                 *)

Str(s) == [i |-> 0, s |-> s, tag |-> "Str"]
Ref(i) == [i |-> i, s |-> << >>, tag |-> "Ref"]

\* QueryBuilder::new
new == [segments |-> << >>, parameters |-> {}, storage |-> << >>]

\* add_segment without its is_empty early return
AddSegmentKeepsEmpty(b, segment) ==
  [b EXCEPT !.segments = Append(@, segment)]

\* QueryBuilder::add_segment
add_segment(b, segment) ==
  IF segment.tag = "Str" /\ segment.s = << >>
  THEN b
  ELSE [b EXCEPT !.segments = Append(@, segment)]

\* add_segment_p with the two pushes swapped
AddSegmentPSwapped(b, prefix, segment) ==
  add_segment(add_segment(b, segment), Str(prefix))

\* QueryBuilder::add_segment_p
add_segment_p(b, prefix, segment) ==
  add_segment(add_segment(b, Str(prefix)), segment)

\* QueryBuilder::add_segment_ps
add_segment_ps(b, prefix, segment, suffix) ==
  add_segment(add_segment_p(b, prefix, segment), Str(suffix))

\* the loop `for i in 0..segments_count - 1` of join_segments, from item i on
RECURSIVE JoinLoop(_, _, _, _, _, _)
JoinLoop(b, seperator, prefix, segs, suffix, i) ==
  IF i > Len(segs) - 1 THEN b
  ELSE JoinLoop(
         add_segment(add_segment_ps(b, prefix, segs[i], suffix), Str(seperator)),
         seperator, prefix, segs, suffix, i + 1)

\* join_segments whose loop runs over every item, the last one included, so
\* that a separator follows the last item too
JoinSegmentsTrailing(b, seperator, prefix, segs, suffix) ==
  JoinLoop(b, seperator, prefix, Append(segs, Str(EMPTY)), suffix, 1)

\* QueryBuilder::join_segments
join_segments(b, seperator, prefix, segs, suffix) ==
  IF Len(segs) <= 1
  THEN IF Len(segs) = 0 THEN b
       ELSE add_segment_ps(b, prefix, segs[1], suffix)
  ELSE add_segment_ps(
         JoinLoop(b, seperator, prefix, segs, suffix, 1),
         prefix, segs[Len(segs)], suffix)

\* QueryBuilder::create
create(b, node) == add_segment_p(b, KW_CREATE, Str(node))

\* QueryBuilder::update
update(b, node) == add_segment_p(b, KW_UPDATE, Str(node))

\* QueryBuilder::select
select(b, node) == add_segment_p(b, KW_SELECT, Str(node))

\* QueryBuilder::from
from(b, node) == add_segment_p(b, KW_FROM, Str(node))

\* QueryBuilder::also
also(b, query) == add_segment_p(b, COMMA, Str(query))

\* QueryBuilder::filter
filter(b, condition) == add_segment_p(b, KW_WHERE, Str(condition))

\* QueryBuilder::and_where
and_where(b, condition) == filter(b, condition)

\* QueryBuilder::and
and(b, condition) == add_segment_p(b, KW_AND, Str(condition))

\* QueryBuilder::set
set(b, upd) == add_segment_p(b, KW_SET, Str(upd))

\* QueryBuilder::fetch
fetch(b, field) == add_segment_p(b, KW_FETCH, Str(field))

\* QueryBuilder::limit
limit(b, lim) == add_segment_p(b, KW_LIMIT, Str(lim))

\* QueryBuilder::start_at
start_at(b, offset) == add_segment_p(b, KW_START_AT, Str(offset))

\* QueryBuilder::raw
raw(b, text) == add_segment(b, Str(text))

\* QueryBuilder::select_many (nodes: &[&str], each converted by From<&str>)
select_many(b, nodes) ==
  join_segments(add_segment(b, Str(KW_SELECT)), COMMA, EMPTY, nodes, EMPTY)

\* QueryBuilder::set_many
set_many(b, updates) ==
  join_segments(add_segment(b, Str(KW_SET)), COMMA, EMPTY, updates, EMPTY)

\* QueryBuilder::fetch_many
fetch_many(b, fields) ==
  join_segments(add_segment(b, Str(KW_FETCH)), COMMA, EMPTY, fields, EMPTY)

\* HashMap::insert as QueryBuilder::param uses it
param(b, key, value) ==
  [b EXCEPT !.parameters = {p \in @ : p[1] # key} \cup {<<key, value>>}]

\* QueryBuilder::hold: the builder after the push, and the segment returned
hold(b, string) ==
  [segment |-> Ref(Len(b.storage)),
   builder |-> [b EXCEPT !.storage = Append(@, string)]]

----------------------------------------------------------------------------
(* Chained operations as data.  A transform handed to if_then or commas   *)
(* (`action: fn(Self) -> Self`) is the sequence of operations its body    *)
(* chains on the builder it is given.                                     *)

Op(name, arg, val, items, cond, action) ==
  [arg |-> arg, val |-> val, items |-> items, cond |-> cond,
   action |-> action, op |-> name]

OpArg(name, arg) == Op(name, arg, EMPTY, << >>, FALSE, << >>)
OpItems(name, items) == Op(name, EMPTY, EMPTY, items, FALSE, << >>)
OpParam(key, value) == Op("param", key, value, << >>, FALSE, << >>)
OpIfThen(cond, action) == Op("if_then", EMPTY, EMPTY, << >>, cond, action)
OpCommas(action) == Op("commas", EMPTY, EMPTY, << >>, FALSE, action)

StrSegments(texts) == [k \in 1..Len(texts) |-> Str(texts[k])]

RECURSIVE Call(_, _)

\* if_then that runs its action whatever the condition
IfThenAlways(b, condition, action) == Call(b, action)

\* QueryBuilder::if_then
if_then(b, condition, action) ==
  IF ~condition THEN b ELSE Call(b, action)

\* the `for (index, segment) in other.segments` loop of commas, from index on
\* (index counted from 0 as enumerate() does)
RECURSIVE CommasLoop(_, _, _)
CommasLoop(b, others, index) ==
  IF index >= Len(others) THEN b
  ELSE CommasLoop(
         IF index <= 0
         THEN [b EXCEPT !.segments = Append(@, others[index + 1])]
         ELSE [add_segment(b, Str(COMMA))
                 EXCEPT !.segments = Append(@, others[index + 1])],
         others, index + 1)

\* commas that puts the comma in front of the first segment too
CommasLeading(b, action) ==
  LET other == Call(new, action)
  IN CommasLoop(add_segment(b, Str(COMMA)), other.segments, 0)

\* QueryBuilder::commas
commas(b, action) ==
  LET other == Call(new, action)
  IN CommasLoop(b, other.segments, 0)

\* the caller's `let r = q.hold(s); q.add_segment(r);`
hold_add(b, string) ==
  LET h == hold(b, string)
  IN add_segment(h.builder, h.segment)

\* the holds of set_querybuilder_object, one per field, left to right: the
\* builder after them and the segments they returned
RECURSIVE HoldAll(_, _)
HoldAll(b, fields) ==
  IF fields = << >> THEN [builder |-> b, held |-> << >>]
  ELSE LET h == hold(b, Head(fields))
           rest == HoldAll(h.builder, Tail(fields))
       IN [builder |-> rest.builder, held |-> <<h.segment>> \o rest.held]

\* QueryBuilderSetObject::set_querybuilder_object as the tests implement it
\* for Account: hold every field's text, then set_many the held segments
set_querybuilder_object(b, fields) ==
  LET h == HoldAll(b, fields)
  IN set_many(h.builder, h.held)

\* QueryBuilder::set_object
set_object(b, fields) == set_querybuilder_object(b, fields)

\* one chained call
ApplyOp(b, o) ==
  CASE o.op = "create" -> create(b, o.arg)
    [] o.op = "update" -> update(b, o.arg)
    [] o.op = "select" -> select(b, o.arg)
    [] o.op = "from" -> from(b, o.arg)
    [] o.op = "also" -> also(b, o.arg)
    [] o.op = "filter" -> filter(b, o.arg)
    [] o.op = "and_where" -> and_where(b, o.arg)
    [] o.op = "and" -> and(b, o.arg)
    [] o.op = "set" -> set(b, o.arg)
    [] o.op = "fetch" -> fetch(b, o.arg)
    [] o.op = "limit" -> limit(b, o.arg)
    [] o.op = "start_at" -> start_at(b, o.arg)
    [] o.op = "raw" -> raw(b, o.arg)
    [] o.op = "add_segment" -> add_segment(b, Str(o.arg))
    [] o.op = "select_many" -> select_many(b, StrSegments(o.items))
    [] o.op = "set_many" -> set_many(b, StrSegments(o.items))
    [] o.op = "fetch_many" -> fetch_many(b, StrSegments(o.items))
    [] o.op = "if_then" -> if_then(b, o.cond, o.action)
    [] o.op = "commas" -> commas(b, o.action)
    [] o.op = "param" -> param(b, o.arg, o.val)
    [] o.op = "hold" -> hold(b, o.arg).builder
    [] o.op = "hold_add" -> hold_add(b, o.arg)
    [] o.op = "set_object" -> set_object(b, o.items)

\* a chain of calls, left to right
Call(b, chain) ==
  IF chain = << >> THEN b
  ELSE Call(ApplyOp(b, Head(chain)), Tail(chain))

----------------------------------------------------------------------------
(* Inputs *)

Args == {EMPTY, <<"a">>}
HeldStrings == {<<"g">>, <<"h">>}
ParamKeys == {<<"a">>}
ParamVals == {EMPTY, <<"b">>}

\* lists handed to select_many, set_many, fetch_many
ItemLists ==
  { << >>,
    <<<<"a">>>>,
    <<<<"a">>, <<"b">>>>,
    <<<<"b">>, <<"a">>, <<"b">>>>,
    <<<<"a">>, EMPTY>> }

\* the field texts a type's set_querybuilder_object holds
FieldLists == {<< >>, <<<<"g">>, <<"h">>>>}

\* bodies of the closures handed to if_then and commas
Transforms ==
  { <<OpArg("raw", <<"a">>), OpArg("raw", <<"b">>)>>,
    <<OpArg("select", <<"a">>), OpArg("raw", EMPTY)>>,
    <<OpItems("select_many", <<<<"a">>, <<"b">>>>),
      OpIfThen(TRUE, <<OpItems("select_many", <<<<"b">>, <<"a">>>>)>>)>>,
    <<OpIfThen(FALSE, <<OpIfThen(TRUE, <<OpArg("raw", <<"b">>)>>)>>),
      OpParam(<<"a">>, <<"b">>)>>,
    <<OpArg("hold_add", <<"g">>)>>,
    <<OpItems("set_object", <<<<"g">>, <<"h">>>>)>> }

----------------------------------------------------------------------------
(* The builder as state *)

Self == [segments |-> segments, parameters |-> parameters, storage |-> storage]

\* one more call chained on the builder (every operation below takes the
\* builder by value: it can be called until build has consumed it)
Chain(o) ==
  /\ Len(calls) < MaxOps
  /\ LET b == ApplyOp(Self, o)
     IN /\ segments' = b.segments
        /\ parameters' = b.parameters
        /\ storage' = b.storage
  /\ calls' = Append(calls, o)
  /\ UNCHANGED <<pc, output, pending, idx>>

Create ==
  \E node \in Args :
    /\ pc = "chain"
    /\ Chain(OpArg("create", node))

Update ==
  \E node \in Args :
    /\ pc = "chain"
    /\ Chain(OpArg("update", node))

Select ==
  \E node \in Args :
    /\ pc = "chain"
    /\ Chain(OpArg("select", node))

From ==
  \E node \in Args :
    /\ pc = "chain"
    /\ Chain(OpArg("from", node))

Also ==
  \E query \in Args :
    /\ pc = "chain"
    /\ Chain(OpArg("also", query))

Filter ==
  \E condition \in Args :
    /\ pc = "chain"
    /\ Chain(OpArg("filter", condition))

AndWhere ==
  \E condition \in Args :
    /\ pc = "chain"
    /\ Chain(OpArg("and_where", condition))

And ==
  \E condition \in Args :
    /\ pc = "chain"
    /\ Chain(OpArg("and", condition))

Set ==
  \E upd \in Args :
    /\ pc = "chain"
    /\ Chain(OpArg("set", upd))

Fetch ==
  \E field \in Args :
    /\ pc = "chain"
    /\ Chain(OpArg("fetch", field))

Limit ==
  \E lim \in Args :
    /\ pc = "chain"
    /\ Chain(OpArg("limit", lim))

StartAt ==
  \E offset \in Args :
    /\ pc = "chain"
    /\ Chain(OpArg("start_at", offset))

Raw ==
  \E text \in Args :
    /\ pc = "chain"
    /\ Chain(OpArg("raw", text))

AddSegment ==
  \E text \in Args :
    /\ pc = "chain"
    /\ Chain(OpArg("add_segment", text))

SelectMany ==
  \E nodes \in ItemLists :
    /\ pc = "chain"
    /\ Chain(OpItems("select_many", nodes))

SetMany ==
  \E updates \in ItemLists :
    /\ pc = "chain"
    /\ Chain(OpItems("set_many", updates))

FetchMany ==
  \E fields \in ItemLists :
    /\ pc = "chain"
    /\ Chain(OpItems("fetch_many", fields))

IfThen ==
  \E condition \in BOOLEAN, action \in Transforms :
    /\ pc = "chain"
    /\ Chain(OpIfThen(condition, action))

Commas ==
  \E action \in Transforms :
    /\ pc = "chain"
    /\ Chain(OpCommas(action))

Param ==
  \E key \in ParamKeys, value \in ParamVals :
    /\ pc = "chain"
    /\ Chain(OpParam(key, value))

Hold ==
  \E string \in HeldStrings :
    /\ pc = "chain"
    /\ Chain(OpArg("hold", string))

HoldAdd ==
  \E string \in HeldStrings :
    /\ pc = "chain"
    /\ Chain(OpArg("hold_add", string))

SetObject ==
  \E fields \in FieldLists :
    /\ pc = "chain"
    /\ Chain(OpItems("set_object", fields))

\* the orders a HashMap's iterator may yield the pairs of `params` in
RECURSIVE Orders(_)
Orders(params) ==
  IF params = {} THEN {<< >>}
  ELSE UNION {{<<p>> \o rest : rest \in Orders(params \ {p})} : p \in params}

\* whether every Ref segment of b indexes a slot of b.storage
InRange(b) ==
  \A k \in 1..Len(b.segments) :
    b.segments[k].tag = "Ref" => b.segments[k].i < Len(b.storage)

\* the closure of build's map: a segment as text
Resolve(b, segment) ==
  IF segment.tag = "Str" THEN segment.s ELSE b.storage[segment.i + 1]

\* build's `.map(..).collect::<Vec<&str>>().join(" ")`
Joined(b) ==
  Join([k \in 1..Len(b.segments) |-> Resolve(b, b.segments[k])], SPACE)

\* build, up to the parameter loop: the segments joined, or the panic of
\* `self.storage[*i]` on an index out of bounds
BuildStart ==
  /\ pc = "chain"
  /\ IF InRange(Self)
     THEN /\ output' = Joined(Self)
          /\ pending' \in Orders(parameters)
          /\ pc' = IF parameters = {} THEN "done" ELSE "find"
     ELSE /\ pc' = "panic"
          /\ UNCHANGED <<output, pending>>
  /\ UNCHANGED <<segments, parameters, storage, calls, idx>>

\* `while let Some(index) = output.find(key)`: the find, and the step to the
\* next pair (or the return) when it finds nothing
BuildFind ==
  /\ pc = "find"
  /\ LET found == Find(output, Head(pending)[1])
     IN /\ idx' = found
        /\ IF found = -1
           THEN /\ pending' = Tail(pending)
                /\ pc' = IF Tail(pending) = << >> THEN "done" ELSE "find"
           ELSE /\ pc' = "replace"
                /\ UNCHANGED pending
  /\ UNCHANGED <<segments, parameters, storage, calls, output>>

\* the loop body of an `if let` in place of the `while let`: one replacement,
\* then on to the next pair
BuildReplaceOnce ==
  /\ pc = "replace"
  /\ LET key == Head(pending)[1]
         value == Head(pending)[2]
     IN output' = ReplaceRange(output, idx, idx + Len(key), value)
  /\ pending' = Tail(pending)
  /\ pc' = IF Tail(pending) = << >> THEN "done" ELSE "find"
  /\ UNCHANGED <<segments, parameters, storage, calls, idx>>

\* the loop body: output.replace_range(index..index + key_size, value), at
\* any length.  When the value contains the key, the key is found again
\* after every replacement and the loop never ends; only such a run is left,
\* at "overflow", once its output has grown past MaxOut.
BuildReplace ==
  /\ pc = "replace"
  /\ LET key == Head(pending)[1]
         value == Head(pending)[2]
         replaced == ReplaceRange(output, idx, idx + Len(key), value)
     IN IF Find(value, key) # -1 /\ Len(replaced) > MaxOut
        THEN UNCHANGED output /\ pc' = "overflow"
        ELSE output' = replaced /\ pc' = "find"
  /\ UNCHANGED <<segments, parameters, storage, calls, pending, idx>>

Init ==
  /\ segments = << >>
  /\ parameters = {}
  /\ storage = << >>
  /\ calls = << >>
  /\ pc = "chain"
  /\ output = << >>
  /\ pending = << >>
  /\ idx = -1

Next ==
  \/ Create \/ Update \/ Select \/ From \/ Also \/ Filter \/ AndWhere \/ And
  \/ Set \/ Fetch \/ Limit \/ StartAt \/ Raw \/ AddSegment
  \/ SelectMany \/ SetMany \/ FetchMany
  \/ IfThen \/ Commas \/ Param \/ Hold \/ HoldAdd \/ SetObject
  \/ BuildStart \/ BuildFind \/ BuildReplace

Spec == Init /\ [][Next]_vars

----------------------------------------------------------------------------
(* Substitution runs: build applied to a drawn text and drawn parameters. *)
(* The builder is the one raw(text).param(..) leaves, and build's steps   *)
(* are the only actions.  A program that can take a step takes it, hence  *)
(* the weak fairness on every step of build.                              *)

BuildNext == BuildStart \/ BuildFind \/ BuildReplace

InitAfter(chain) ==
  LET b == Call(new, chain)
  IN /\ segments = b.segments
     /\ parameters = b.parameters
     /\ storage = b.storage
     /\ calls = chain
     /\ pc = "chain"
     /\ output = << >>
     /\ pending = << >>
     /\ idx = -1

\* raw(text).param(key, value)
SubstInit ==
  \E text \in Texts(MaxText), key \in Texts(MaxKey), value \in Texts(MaxVal) :
    InitAfter(<<OpArg("raw", text), OpParam(key, value)>>)

SubstSpec == SubstInit /\ [][BuildNext]_vars /\ WF_vars(BuildNext)

\* raw(text).param(key1, value1).param(key2, value2), two distinct keys
MultiInit ==
  \E text \in Texts(MaxPair + 1) :
    \E key1 \in Texts(MaxPair), value1 \in Texts(MaxPair) :
      \E key2 \in Texts(MaxPair) \ {key1}, value2 \in Texts(MaxPair) :
        InitAfter(<<OpArg("raw", text), OpParam(key1, value1),
                    OpParam(key2, value2)>>)

MultiSpec == MultiInit /\ [][BuildNext]_vars /\ WF_vars(BuildNext)

----------------------------------------------------------------------------
(* Vocabulary of the claims *)

Last(chain) == chain[Len(chain)]
Front(chain) == SubSeq(chain, 1, Len(chain) - 1)

RECURSIVE Flatten(_)
Flatten(seqs) ==
  IF seqs = << >> THEN << >> ELSE Head(seqs) \o Flatten(Tail(seqs))

IsNonEmpty(text) == text # EMPTY
NonEmpty(texts) == SelectSeq(texts, IsNonEmpty)

KeywordOps ==
  {"create", "update", "select", "from", "filter", "and_where", "and", "set",
   "fetch", "limit", "start_at", "also", "raw"}
ManyOps == {"select_many", "set_many", "fetch_many"}

\* the fixed keyword of a keyword operation, as its documentation gives it
KeywordOf(name) ==
  CASE name = "create" -> <<"C", "R", "E", "A", "T", "E">>
    [] name = "update" -> <<"U", "P", "D", "A", "T", "E">>
    [] name \in {"select", "select_many"} -> <<"S", "E", "L", "E", "C", "T">>
    [] name = "from" -> <<"F", "R", "O", "M">>
    [] name \in {"filter", "and_where"} -> <<"W", "H", "E", "R", "E">>
    [] name = "and" -> <<"A", "N", "D">>
    [] name \in {"set", "set_many"} -> <<"S", "E", "T">>
    [] name \in {"fetch", "fetch_many"} -> <<"F", "E", "T", "C", "H">>
    [] name = "limit" -> <<"L", "I", "M", "I", "T">>
    [] name = "start_at" -> <<"S", "T", "A", "R", "T", " ", "A", "T">>
    [] name = "also" -> <<",">>
    [] name \in {"raw", "add_segment"} -> << >>

\* what one keyword operation contributes: its keyword, a space, its argument
ClauseText(o) ==
  IF o.op = "raw" THEN o.arg ELSE KeywordOf(o.op) \o SPACE \o o.arg

IsKeywordChain ==
  \A k \in 1..Len(calls) : calls[k].op \in KeywordOps /\ calls[k].arg # EMPTY

\* C1: a chain of keyword operations with non-empty arguments and no
\* parameters builds to its clauses (keyword, space, argument) in call order,
\* joined by exactly one space; build neither panics nor fails to return.
C1_KeywordChainInCallOrder ==
  IsKeywordChain =>
    /\ pc \in {"chain", "done"}
    /\ pc = "done" =>
         output = Join([k \in 1..Len(calls) |-> ClauseText(calls[k])], SPACE)

C1_Witness ==
  /\ pc = "done"
  /\ IsKeywordChain
  /\ Len(calls) = 2
  /\ calls[1].op = "create"
  /\ calls[2].op = "start_at"

IsManyChain ==
  \A k \in 1..Len(calls) :
    /\ calls[k].op \in ManyOps
    /\ calls[k].items # << >>
    /\ \A j \in 1..Len(calls[k].items) : calls[k].items[j] # EMPTY

\* S[0] , S[1] , ... , S[n-1] after the operation's keyword
ListText(o) ==
  KeywordOf(o.op) \o SPACE \o Join(o.items, <<" ", ",", " ">>)

\* C2: select_many, set_many and fetch_many of a non-empty sequence S of
\* non-empty literals build to the keyword followed by S[0] , S[1] , ... ,
\* S[n-1]: every item once, in order, a comma with a space on each side
\* between consecutive items and none after the last.
C2_ManyJoinsWithCommas ==
  (pc = "done" /\ IsManyChain) =>
    output = Join([k \in 1..Len(calls) |-> ListText(calls[k])], SPACE)

C2_Witness ==
  /\ pc = "done"
  /\ IsManyChain
  /\ Len(calls) = 2
  /\ Len(calls[1].items) = 3
  /\ Len(calls[2].items) = 2

\* the chain with every if_then(false, ..) left out, at any depth
RECURSIVE StripFalse(_)
StripFalse(chain) ==
  IF chain = << >> THEN << >>
  ELSE LET o == Head(chain)
           rest == StripFalse(Tail(chain))
       IN IF o.op = "if_then" /\ ~o.cond THEN rest
          ELSE <<[o EXCEPT !.action = StripFalse(@)]>> \o rest

\* C3: if_then(false, f) leaves segments, held strings and parameters as they
\* were, whatever f (and any if_then(true, g) inside f) would have done: the
\* builder is the one the chain without its false conditionals produces.
C3_FalseConditionIsNoOp ==
  /\ Self = Call(new, StripFalse(calls))
  /\ (Len(calls) > 0 /\ Last(calls).op = "if_then" /\ ~Last(calls).cond) =>
       Self = Call(new, Front(calls))

C3_Witness ==
  /\ pc = "done"
  /\ Len(calls) = 2
  /\ segments # << >>
  /\ calls[2].op = "if_then"
  /\ ~calls[2].cond
  /\ \E k \in 1..Len(calls[2].action) :
       calls[2].action[k].op = "if_then" /\ calls[2].action[k].cond

\* g1 , g2 , ... , gm
Interspersed(segs, sep) ==
  IF segs = << >> THEN << >>
  ELSE [k \in 1..(2 * Len(segs) - 1) |->
          IF k % 2 = 1 THEN segs[(k + 1) \div 2] ELSE sep]

\* C6: commas(f) appends, to the segments the builder had, the segments f
\* produces on a fresh builder with one comma segment before every segment
\* after the first; commas(raw(a).raw(b)) alone builds to "a , b".
C6_CommasIntersperses ==
  /\ (Len(calls) > 0 /\ Last(calls).op = "commas") =>
       segments = Call(new, Front(calls)).segments
                    \o Interspersed(Call(new, Last(calls).action).segments,
                                    Str(COMMA))
  /\ (pc = "done"
        /\ calls = <<OpCommas(<<OpArg("raw", <<"a">>), OpArg("raw", <<"b">>)>>)>>)
       => output = <<"a", " ", ",", " ", "b">>

C6_Witness ==
  /\ pc = "done"
  /\ Len(calls) = 2
  /\ calls[2].op = "commas"
  /\ Call(new, Front(calls)).segments # << >>
  /\ Len(Call(new, calls[2].action).segments) >= 3

\* the literals an operation hands to add_segment, in the order it does
Literals(o) ==
  IF o.op \in ManyOps
  THEN <<KeywordOf(o.op)>> \o
       Flatten([j \in 1..Len(o.items) |->
                  <<EMPTY, o.items[j], EMPTY>> \o
                  (IF j < Len(o.items) THEN <<COMMA>> ELSE << >>)])
  ELSE <<KeywordOf(o.op), o.arg>>

IsLiteralChain ==
  \A k \in 1..Len(calls) : calls[k].op \in KeywordOps \cup ManyOps \cup {"add_segment"}

\* C8: an empty literal handed to add_segment, directly or as the prefix,
\* value or suffix of a keyword or join operation, changes nothing: no Str
\* segment is ever empty, add_segment("") leaves the builder as it was, and a
\* chain builds to its non-empty literals joined by single spaces.
C8_EmptyLiteralIsNoOp ==
  /\ \A k \in 1..Len(segments) :
       segments[k].tag = "Str" => segments[k].s # EMPTY
  /\ (Len(calls) > 0 /\ Last(calls).op \in {"raw", "add_segment"}
        /\ Last(calls).arg = EMPTY) => Self = Call(new, Front(calls))
  /\ (pc = "done" /\ IsLiteralChain) =>
       output = Join(NonEmpty(Flatten([k \in 1..Len(calls) |-> Literals(calls[k])])),
                     SPACE)

C8_Witness ==
  /\ pc = "done"
  /\ IsLiteralChain
  /\ Len(calls) = 2
  /\ calls[1].op = "create" /\ calls[1].arg = EMPTY
  /\ calls[2].op \in ManyOps /\ \E j \in 1..Len(calls[2].items) : calls[2].items[j] = EMPTY

\* C7: every Ref segment of the builder indexes a slot of the builder's own
\* storage, so that build never reads a held-string slot out of range.
C7_RefsInRange ==
  /\ InRange(Self)
  /\ pc # "panic"

\* the texts a chain is meant to put in the query, in order: its non-empty
\* literals, and for a held segment the string that was handed to hold
RECURSIVE Meant(_)
MeantOp(o) ==
  CASE o.op \in KeywordOps \cup ManyOps \cup {"add_segment"} -> NonEmpty(Literals(o))
    [] o.op = "hold_add" -> <<o.arg>>
    [] o.op = "set_object" -> <<KeywordOf("set")>> \o Interspersed(o.items, COMMA)
    [] o.op = "if_then" -> IF o.cond THEN Meant(o.action) ELSE << >>
    [] o.op = "commas" -> Interspersed(Meant(o.action), COMMA)
    [] o.op \in {"hold", "param"} -> << >>

Meant(chain) == Flatten([k \in 1..Len(chain) |-> MeantOp(chain[k])])

IsPrefix(s, t) == Len(s) <= Len(t) /\ SubSeq(t, 1, Len(s)) = s

\* C10: held strings are append-only with stable indices: hold(s) adds the
\* slot for s after the slots there were and leaves the segments alone, no
\* operation changes an earlier slot, and a held segment, once appended
\* (directly, by set_object, or inside a transform of if_then or commas),
\* is rendered by build as exactly s at the place it was appended.
C10_HeldStringsRenderAsHeld ==
  /\ Len(calls) > 0 =>
       LET before == Call(new, Front(calls))
       IN /\ IsPrefix(before.storage, storage)
          /\ Last(calls).op = "hold" =>
               /\ segments = before.segments
               /\ storage = Append(before.storage, Last(calls).arg)
  /\ InRange(Self) =>
       [k \in 1..Len(segments) |-> Resolve(Self, segments[k])] = Meant(calls)

----------------------------------------------------------------------------
(* Claims about the parameter loop, on the substitution runs, whose chain  *)
(* is raw(text).param(key, value)...                                       *)

TextDrawn == calls[1].arg
KeyDrawn == calls[2].arg
ValueDrawn == calls[2].val

\* text with its occurrences of key, taken left to right without overlap,
\* each replaced in place by value
RECURSIVE ReplaceAll(_, _, _)
ReplaceAll(text, key, value) ==
  IF key = << >> \/ Len(text) < Len(key) THEN text
  ELSE IF MatchAt(text, key, 0)
       THEN value \o ReplaceAll(SubSeq(text, Len(key) + 1, Len(text)), key, value)
       ELSE <<Head(text)>> \o ReplaceAll(Tail(text), key, value)

\* the number of those occurrences
RECURSIVE Occurrences(_, _)
Occurrences(text, key) ==
  IF key = << >> \/ Len(text) < Len(key) THEN 0
  ELSE IF MatchAt(text, key, 0)
       THEN 1 + Occurrences(SubSeq(text, Len(key) + 1, Len(text)), key)
       ELSE Occurrences(Tail(text), key)

\* whether an occurrence of key can overlap an inserted copy of value: key
\* laid d places after the start of value agrees with value wherever the two
\* overlap (for an empty value: key lies across the place value was put)
CanOverlap(key, value) ==
  \E d \in (1 - Len(key))..(IF value = << >> THEN -1 ELSE Len(value) - 1) :
    \A q \in 1..Len(value) :
      (1 <= q - d /\ q - d <= Len(key)) => key[q - d] = value[q]

IsSingleParam ==
  /\ Len(calls) = 2
  /\ calls[1].op = "raw"
  /\ calls[2].op = "param"

\* C4 as claimed: after param(X, Y), build of text with k occurrences of X
\* returns the text with no occurrence of X and Y where each X stood, the
\* rest unchanged.
C4_SubstitutionExhaustive ==
  (pc = "done" /\ IsSingleParam) =>
    /\ output = ReplaceAll(TextDrawn, KeyDrawn, ValueDrawn)
    /\ Find(output, KeyDrawn) = -1

\* C4 as amended: the same, for a non-empty X no occurrence of which can
\* overlap an inserted copy of Y.
C4_SubstitutionExhaustiveNoOverlap ==
  (pc = "done" /\ IsSingleParam /\ KeyDrawn # EMPTY
     /\ ~CanOverlap(KeyDrawn, ValueDrawn)) =>
    /\ output = ReplaceAll(TextDrawn, KeyDrawn, ValueDrawn)
    /\ Find(output, KeyDrawn) = -1

C4_Witness ==
  /\ pc = "done"
  /\ IsSingleParam
  /\ KeyDrawn # EMPTY
  /\ ValueDrawn # EMPTY
  /\ ~CanOverlap(KeyDrawn, ValueDrawn)
  /\ Occurrences(TextDrawn, KeyDrawn) = 3
  /\ Occurrences(output, ValueDrawn) = 3

\* C5: the string build returns contains no registered key, whatever the
\* values and whatever the order the keys were processed in.
C5_NoRegisteredKeyRemains ==
  pc = "done" => \A p \in parameters : Find(output, p[1]) = -1

\* C9: build returns.  (The runs left at "overflow" do not return either;
\* they are set aside here so that the run shown against the claim is a loop
\* of build itself.)
C9_BuildTerminates == <>(pc \in {"done", "panic", "overflow"})

----------------------------------------------------------------------------
(* build's parameter loop as a function of the order the HashMap yields    *)
(* the pairs in, to compare the orders of one table.  `ok` is FALSE when   *)
(* the loop does not return: the key is found and the value contains the   *)
(* key, so that every replacement leaves an occurrence to find.            *)

\* `while let Some(index) = output.find(key) { output.replace_range(..) }`
RECURSIVE SubstituteKey(_, _, _)
SubstituteKey(text, key, value) ==
  LET index == Find(text, key)
  IN IF index = -1 THEN [text |-> text, ok |-> TRUE]
     ELSE IF Find(value, key) # -1 THEN [text |-> text, ok |-> FALSE]
          ELSE SubstituteKey(
                 ReplaceRange(text, index, index + Len(key), value), key, value)

\* `for (key, value) in self.parameters`, the pairs coming in `order`
RECURSIVE SubstituteAll(_, _)
SubstituteAll(text, order) ==
  IF order = << >> THEN [text |-> text, ok |-> TRUE]
  ELSE LET first == SubstituteKey(text, Head(order)[1], Head(order)[2])
       IN IF first.ok THEN SubstituteAll(first.text, Tail(order)) ELSE first

\* C11: for a fixed sequence of segments and a fixed table of two or more
\* keys, build returns the same string in whatever order the keys are
\* applied: the string one order returned is the string every other order
\* returns (orders under which build does not return are left aside).
C11_OrderIndependent ==
  (pc = "done" /\ Cardinality(parameters) >= 2) =>
    \A order \in Orders(parameters) :
      LET other == SubstituteAll(Joined(Self), order)
      IN other.ok => other.text = output

====
